---- MODULE Spec2Model ----
(***************************************************************************)
(* Model of the request handlers of src/app.py that fan lookups out over   *)
(* a thread pool: optimize (provider aggregation + set-cover search),      *)
(* calendar (episode window) and get_details, together with the TMDB       *)
(* client calls they make (src/services/tmdb.py).                          *)
(*                                                                         *)
(* One request is in progress at a time.  The answers the metadata         *)
(* provider gives during a request are fixed when the request starts       *)
(* (variable tmdb) so that what a lookup returns is a function of the      *)
(* item it was called with; the thread interleaving stays free.            *)
(***************************************************************************)
EXTENDS Integers, Sequences, FiniteSets, TLC

\* ------------------------------------------------------------------ bounds
\* Longest watchlist of the specification with the rich provider answers.
MaxTitles == 3
\* Longest watchlist of the specification that exercises the worker pool.
MaxItems == 7
\* Rows the watchlist table may hold in the specification of the store.
MaxRows == 2
\* Timestamps datetime.now() may take in the specification of the store.
MaxClock == 2

\* ------------------------------------------------------- program constants
\* ThreadPoolExecutor(max_workers=5)
MAX_WORKERS == 5
\* max_n = min(5, len(platform_ids))
MAX_COMBO_SIZE == 5
CALENDAR_DAYS == 150

\* config.PROVIDER_PRICES, the 'price' of every configured provider id.
PROVIDER_PRICES ==
    (8 :> 169) @@ (119 :> 45) @@ (337 :> 100) @@ (350 :> 30) @@ (283 :> 30) @@ (531 :> 50)

VARIABLES
    db,         \* rows of the watchlist table, in insertion (rowid) order
    pc,         \* "idle" | "fanout" | "done": position of the request handler
    req,        \* "none" | "optimize" | "calendar" | "details"
    arg,        \* the request's argument: the <media_type> of a details request,
                \* the JSON item of an add, the (media_type, id) of a remove
    tmdb,       \* title id -> the answer TMDB gives for that title in this request
    today,      \* datetime.now().date() of a calendar request, as a day ordinal
    items,      \* the sequence handed to pool.map
    nextIdx,    \* index of the next work item a worker will take from the queue
    running,    \* indices whose lookup is executing in a worker thread
    results,    \* index -> the future's result, or Pending
    attempts,   \* index -> number of times the lookup was invoked
    calls,      \* provider calls made by the lookups that have returned
    response    \* the HTTP response of the request

vars == <<db, pc, req, arg, tmdb, today, items, nextIdx, running, results, attempts,
          calls, response>>

\* ------------------------------------------------------------ small helpers
Min(a, b) == IF a < b THEN a ELSE b

Range(s) == {s[i] : i \in 1..Len(s)}

RECURSIVE SumSeq(_)
SumSeq(s) == IF s = <<>> THEN 0 ELSE Head(s) + SumSeq(Tail(s))

RECURSIVE Flatten(_)
Flatten(ss) == IF ss = <<>> THEN <<>> ELSE Head(ss) \o Flatten(Tail(ss))

\* ------------------------------------------------------------ the watchlist
\* Rows have a unique (id, media_type) key; the model's row k has id k and was
\* added k ticks before the server started, so that row 1 is the newest.  Of
\* the display columns (title, poster_path, vote_average, release_date) the
\* rows carry the title.
MediaTypeOf(id) == IF id = 2 THEN "movie" ELSE "tv"

Item(id) == [id |-> id, media_type |-> MediaTypeOf(id), title |-> id, added_at |-> 0 - id]

Watchlist(n) == [k \in 1..n |-> Item(k)]

\* SELECT * FROM watchlist ORDER BY added_at DESC; rows with the same added_at
\* come in rowid order.
RECURSIVE LoadOrder(_)
LoadOrder(rows) ==
    IF rows = <<>> THEN <<>>
    ELSE LET init == LoadOrder(SubSeq(rows, 1, Len(rows) - 1))
             r    == rows[Len(rows)]
             n    == Cardinality({k \in 1..Len(init) : init[k].added_at >= r.added_at})
         IN  SubSeq(init, 1, n) \o <<r>> \o SubSeq(init, n + 1, Len(init))

load_watchlist == LoadOrder(db)

SameKey(r, q) == r.id = q.id /\ r.media_type = q.media_type

\* Mutant of InsertOrIgnore: the table has no primary key, every insert lands.
InsertAlways(rows, row) == Append(rows, row)

\* INSERT OR IGNORE INTO watchlist ... with PRIMARY KEY (id, media_type)
InsertOrIgnore(rows, row) ==
    IF \E k \in 1..Len(rows) : SameKey(rows[k], row) THEN rows ELSE Append(rows, row)

\* DELETE FROM watchlist WHERE id = ? AND media_type = ?
DeleteKey(rows, key) == SelectSeq(rows, LAMBDA r : ~SameKey(r, key))

\* migrate_json_watchlist: every item of watchlist.json is inserted in turn.
RECURSIVE Migrate(_)
Migrate(json) ==
    IF json = <<>> THEN <<>>
    ELSE InsertOrIgnore(Migrate(SubSeq(json, 1, Len(json) - 1)), json[Len(json)])

NoResponse == [status |-> 0, body |-> [error |-> "none"]]

\* A future of pool.map: not done until its worker has returned.  `value` of a
\* future that is not done is what the lookup's default would be.
Pending(default) == [done |-> FALSE, value |-> default]
Done(value) == [done |-> TRUE, value |-> value]

\* ------------------------------------------------- TMDB client (tmdb.py)
\* What the HTTP endpoint answers for one title:
\*   "json"         a JSON object of the documented shape (fields below)
\*   "notdict"      a JSON body that is not an object (malformed)
\*   "http_error"   transport failure or a non-2xx status (raise_for_status)
\*   "unauthorized" 401, or no API key configured: _get raises TMDBError
Kinds == {"json", "notdict", "http_error", "unauthorized"}

\* TMDBService._get: the exception it raises ("none" when it returns resp.json()).
Get(answer) ==
    CASE answer.kind = "unauthorized" -> "TMDBError"
      [] answer.kind = "http_error"   -> "HTTPError"
      [] OTHER                        -> "none"

\* A flat-rate offer as TMDB lists it, and one that lacks its 'provider_id'.
Offer(pid) == [provider_id |-> pid, provider_name |-> pid]
OfferWithoutId == [provider_name |-> 0]

WP(kind, pids) == [kind |-> kind, flatrate |-> [k \in 1..Len(pids) |-> Offer(pids[k])]]

\* TMDBService.get_watch_providers: data.get(...) raises AttributeError on a body
\* that is no object; otherwise the 'eg' entry of the result is the EG region.
get_watch_providers(media_type, title_id) ==
    LET answer == tmdb[title_id]
        exc    == Get(answer)
    IN  IF exc # "none" THEN [exc |-> exc, eg |-> [flatrate |-> <<>>]]
        ELSE IF answer.kind = "notdict"
             THEN [exc |-> "AttributeError", eg |-> [flatrate |-> <<>>]]
             ELSE [exc |-> "none", eg |-> [flatrate |-> answer.flatrate]]

\* ------------------------------------------------------- optimize: _fetch
\* try: return item, prov['eg']['flatrate']   except Exception: return item, []
OptimizeFetch(item) ==
    LET prov == get_watch_providers(item.media_type, item.id)
    IN  IF prov.exc # "none"
        THEN [item |-> item, flatrate |-> <<>>]
        ELSE [item |-> item, flatrate |-> prov.eg.flatrate]

OptimizeCalls(item) == {[op |-> "watch_providers", id |-> item.id, season |-> 0]}

\* ------------------------------------------- optimize: provider aggregator
\* p['provider_id'] raises KeyError on an offer without that key; the loop is
\* outside every try block, so the handler ends in handle_generic_error.
AggregatorRaises(rs) ==
    \E i \in 1..Len(rs) : \E k \in 1..Len(rs[i].flatrate) :
        "provider_id" \notin DOMAIN rs[i].flatrate[k]

\* PROVIDER_PRICES.get(pid, {}) ... price_info.get('price') if price_info else None
ProviderEntry(p) ==
    [id |-> p.provider_id, name |-> p.provider_name,
     priced |-> p.provider_id \in DOMAIN PROVIDER_PRICES,
     price |-> IF p.provider_id \in DOMAIN PROVIDER_PRICES
               THEN PROVIDER_PRICES[p.provider_id] ELSE 0]

\* all_providers as the insertion-ordered dict it is: first sighting wins.
RECURSIVE AddOffers(_, _)
AddOffers(all, flatrate) ==
    IF flatrate = <<>> THEN all
    ELSE LET p == Head(flatrate)
         IN  IF \E k \in 1..Len(all) : all[k].id = p.provider_id
             THEN AddOffers(all, Tail(flatrate))
             ELSE AddOffers(Append(all, ProviderEntry(p)), Tail(flatrate))

RECURSIVE AllProviders(_)
AllProviders(rs) ==
    IF rs = <<>> THEN <<>>
    ELSE AddOffers(AllProviders(SubSeq(rs, 1, Len(rs) - 1)), rs[Len(rs)].flatrate)

\* title_providers, in insertion order (keys are distinct: one row per key).
TitleProviders(rs) ==
    [i \in 1..Len(rs) |->
        [key |-> <<rs[i].item.media_type, rs[i].item.id>>,
         title |-> rs[i].item.title,
         providers |-> [k \in 1..Len(rs[i].flatrate) |-> rs[i].flatrate[k].provider_id]]]

\* ------------------------------------------------ optimize: set-cover search
\* itertools.combinations(s, n): the n-tuples of s in lexicographic index order.
RECURSIVE Combinations(_, _)
Combinations(s, n) ==
    IF n = 0 THEN << <<>> >>
    ELSE IF Len(s) < n THEN <<>>
    ELSE LET with == Combinations(Tail(s), n - 1)
         IN  [k \in 1..Len(with) |-> <<Head(s)>> \o with[k]] \o Combinations(Tail(s), n)

\* Mutant of Covered: the membership test is negated, so a title counts when
\* one of its providers is missing from the combination.
CoveredNegated(tp, combo) ==
    LET miss(d) == \E k \in 1..Len(d.providers) : d.providers[k] \notin Range(combo)
        sel     == SelectSeq(tp, miss)
    IN  [k \in 1..Len(sel) |-> sel[k].title]

\* covered = [d['title'] for d in title_providers.values()
\*            if any(p in combo for p in d['providers'])]
Covered(tp, combo) ==
    LET hit(d) == \E k \in 1..Len(d.providers) : d.providers[k] \in Range(combo)
        sel    == SelectSeq(tp, hit)
    IN  [k \in 1..Len(sel) |-> sel[k].title]

\* all_providers[p].get('price') or 0
PriceOrZero(all, pid) ==
    LET e == CHOOSE x \in Range(all) : x.id = pid
    IN  IF e.priced /\ e.price # 0 THEN e.price ELSE 0

\* cost = sum(all_providers[p].get('price') or 0 for p in combo)
Cost(all, combo) == SumSeq([k \in 1..Len(combo) |-> PriceOrZero(all, combo[k])])

\* best_combo = None; best_coverage = 0; best_cost = float('inf'); best_covered = []
NoBest == [combo |-> <<>>, coverage |-> 0, inf |-> TRUE, cost |-> 0, covered |-> <<>>]

\* Mutant of Improves: the cost tie-break is missing.
ImprovesIgnoringCost(coverage, cost, best) == coverage > best.coverage

\* len(covered) > best_coverage or (len(covered) == best_coverage and cost < best_cost)
Improves(coverage, cost, best) ==
    \/ coverage > best.coverage
    \/ coverage = best.coverage /\ (best.inf \/ cost < best.cost)

\* The inner loop over combinations(platform_ids, n), from the k-th combination on.
RECURSIVE Search(_, _, _, _, _)
Search(all, tp, cs, k, best) ==
    IF k > Len(cs) THEN best
    ELSE LET covered == Covered(tp, cs[k])
             cost    == Cost(all, cs[k])
         IN  IF Improves(Len(covered), cost, best)
             THEN Search(all, tp, cs, k + 1,
                         [combo |-> cs[k], coverage |-> Len(covered), inf |-> FALSE,
                          cost |-> cost, covered |-> covered])
             ELSE Search(all, tp, cs, k + 1, best)

\* Mutant of MaxN: the cap on the combination size is missing.
MaxNUncapped(m) == m

\* max_n = min(5, len(platform_ids))
MaxN(m) == Min(MAX_COMBO_SIZE, m)

\* round(best_coverage / total * 100, 1) if total else 0, in tenths of a percent
\* (round half to even on the exact quotient).
Percentage(coverage, total) ==
    IF total = 0 THEN 0
    ELSE LET q == (coverage * 1000) \div total
             r == (coverage * 1000) % total
         IN  IF 2 * r > total \/ (2 * r = total /\ q % 2 = 1) THEN q + 1 ELSE q

PlatformIds(all) == [k \in 1..Len(all) |-> all[k].id]

\* One pass of "for n in range(1, max_n + 1)": the entry appended for size n, as
\* a sequence of zero or one entries ("if best_combo:").
ComboEntry(all, tp, n) ==
    LET best == Search(all, tp, Combinations(PlatformIds(all), n), 1, NoBest)
    IN  IF best.combo # <<>>
        THEN << [num_platforms |-> n, platforms |-> best.combo,
                 coverage |-> best.coverage, total |-> Len(tp),
                 percentage |-> Percentage(best.coverage, Len(tp)),
                 monthly_cost |-> best.cost, covered_titles |-> best.covered] >>
        ELSE <<>>

RECURSIVE CombosUpTo(_, _, _)
CombosUpTo(all, tp, n) ==
    IF n = 0 THEN <<>> ELSE CombosUpTo(all, tp, n - 1) \o ComboEntry(all, tp, n)

\* The body of the 200 response of optimize.
OptimizeBody(rs) ==
    LET all == AllProviders(rs)
        tp  == TitleProviders(rs)
        na  == SelectSeq(tp, LAMBDA d : d.providers = <<>>)
    IN  [total_titles |-> Len(tp),
         combinations |-> CombosUpTo(all, tp, MaxN(Len(all))),
         not_available |-> [k \in 1..Len(na) |-> na[k].title],
         all_platforms |-> all]

\* handle_tmdb_error -> 502, handle_generic_error -> 500
ErrorResponse(exc) ==
    [status |-> IF exc = "TMDBError" THEN 502 ELSE 500, body |-> [error |-> exc]]

\* ------------------------------------------------- calendar: _fetch_episodes
\* An episode of a season listing: air is "date" (air_date parses with
\* '%Y-%m-%d' to the day ordinal `day`), "none" (no air_date) or "bad" (a
\* string strptime rejects with ValueError).
Episode(sn, num, air, day) ==
    [season_number |-> sn, episode_number |-> num, air |-> air, day |-> day]

\* The episode lists TMDB holds, by season number (the same for every show);
\* season 0 is the specials.
EpisodesOf(sn) ==
    CASE sn = 0 -> << Episode(0, 1, "date", 40) >>
      [] sn = 1 -> << Episode(1, 1, "date", 0), Episode(1, 2, "date", 1),
                      Episode(1, 3, "date", 2) >>
      [] sn = 2 -> << Episode(2, 1, "date", CALENDAR_DAYS + 1),
                      Episode(2, 2, "date", CALENDAR_DAYS + 2),
                      Episode(2, 3, "none", 0), Episode(2, 4, "bad", 0) >>
      [] sn = 3 -> << Episode(3, 1, "date", CALENDAR_DAYS + 3),
                      Episode(3, 2, "date", 76) >>
      [] OTHER  -> <<>>

\* A show as /tv/{id} answers: status, next_episode_to_air (<<>>: null,
\* <<sn>>: an episode of season sn), the season numbers of 'seasons', and at
\* most one season whose listing is broken.
Show(kind, status, next, seasons, broken) ==
    [kind |-> kind, status |-> status, next |-> next, seasons |-> seasons,
     broken |-> broken]

NotBroken == [season |-> 0, kind |-> "json"]

\* The answer of /tv/{id}/season/{sn}.
SeasonAnswer(title_id, sn) ==
    LET show == tmdb[title_id]
    IN  IF show.broken.season = sn THEN [kind |-> show.broken.kind, episodes |-> <<>>]
        ELSE [kind |-> "json", episodes |-> EpisodesOf(sn)]

\* Mutant of InWindow: the cutoff day itself is left out.
InWindowExclusive(t, air_date) == t <= air_date /\ air_date < t + CALENDAR_DAYS

\* cutoff = today + timedelta(days=CALENDAR_DAYS); today <= air_date <= cutoff
InWindow(t, air_date) == t <= air_date /\ air_date <= t + CALENDAR_DAYS

\* real = [s for s in all_seasons if s.get('season_number', 0) > 0]; real[-2:]
LastTwoReal(seasons) ==
    LET real == SelectSeq(seasons, LAMBDA sn : sn > 0)
    IN  {real[k] : k \in {j \in 1..Len(real) : j > Len(real) - 2}}

\* if next_ep and next_ep.get('season_number'): a season number 0 is falsy.
SeasonsToCheck(show) ==
    (IF show.next # <<>> /\ show.next[1] # 0 THEN {show.next[1]} ELSE {})
        \cup LastTwoReal(show.seasons)

\* Iteration order of a set of small ints in CPython: ascending.
RECURSIVE SetOrder(_)
SetOrder(S) ==
    IF S = {} THEN <<>>
    ELSE LET m == CHOOSE x \in S : \A y \in S : x <= y
         IN  <<m>> \o SetOrder(S \ {m})

\* The episodes.append(...) loop over one season's listing.
SeasonRows(item, sn, eps) ==
    LET keep(ep) == ep.air = "date" /\ InWindow(today, ep.day)
        sel      == SelectSeq(eps, keep)
    IN  [k \in 1..Len(sel) |->
            [show_id |-> item.id, season_number |-> sel[k].season_number,
             episode_number |-> sel[k].episode_number, air_date |-> sel[k].day]]

SeasonCall(item, sn) == [op |-> "season", id |-> item.id, season |-> sn]

\* "for sn in seasons_to_check": a get_season that raises is skipped; a listing
\* that is no object raises AttributeError at season_data.get, which the outer
\* except catches: the episodes appended so far are returned.
RECURSIVE ScanSeasons(_, _, _)
ScanSeasons(item, order, acc) ==
    IF order = <<>> THEN acc
    ELSE LET sn     == Head(order)
             answer == SeasonAnswer(item.id, sn)
             called == [acc EXCEPT !.calls = @ \cup {SeasonCall(item, sn)}]
         IN  IF Get(answer) # "none" THEN ScanSeasons(item, Tail(order), called)
             ELSE IF answer.kind = "notdict" THEN called
             ELSE ScanSeasons(item, Tail(order),
                     [called EXCEPT !.episodes = @ \o SeasonRows(item, sn, answer.episodes)])

\* Mutant of IsTerminal: cancelled shows are not skipped.
IsTerminalEndedOnly(status) == status = "Ended"

\* if status in ('Ended', 'Canceled'): return episodes
IsTerminal(status) == status \in {"Ended", "Canceled"}

\* _fetch_episodes(item): its return value and the provider calls it made.
FetchEpisodes(item) ==
    LET show  == tmdb[item.id]
        first == [episodes |-> <<>>,
                  calls |-> {[op |-> "tv_basic", id |-> item.id, season |-> 0]}]
    IN  IF Get(show) # "none" \/ show.kind = "notdict" THEN first
        ELSE IF IsTerminal(show.status) THEN first
        ELSE ScanSeasons(item, SetOrder(SeasonsToCheck(show)), first)

\* all_episodes.sort(key=lambda e: e['air_date']): stable, ascending.  The key
\* is the 'YYYY-MM-DD' string, which orders as the day it denotes.
RECURSIVE SortByAirDate(_)
SortByAirDate(s) ==
    IF s = <<>> THEN <<>>
    ELSE LET init == SortByAirDate(SubSeq(s, 1, Len(s) - 1))
             e    == s[Len(s)]
             n    == Cardinality({k \in 1..Len(init) : init[k].air_date <= e.air_date})
         IN  SubSeq(init, 1, n) \o <<e>> \o SubSeq(init, n + 1, Len(init))

\* The body of the 200 response of calendar.
CalendarBody(shows, rs) ==
    [episodes |-> SortByAirDate(Flatten(rs)), shows |-> Len(shows),
     days |-> CALENDAR_DAYS]

\* ------------------------------------------------ what TMDB may answer
\* Provider id 999 stands for an id config.PROVIDER_PRICES does not list.
AllSix == <<8, 119, 337, 350, 283, 531>>

WatchProviderAnswers ==
    { WP("json", pids) : pids \in { <<>>, <<8>>, <<350>>, <<283>>, <<999>>,
                                    <<119, 350>>, <<283, 8>>, AllSix } }
    \cup { [kind |-> "json", flatrate |-> <<Offer(8), OfferWithoutId>>] }
    \cup { WP(kind, <<>>) : kind \in Kinds \ {"json"} }

PoolWatchProviderAnswers == { WP("json", <<8>>), WP("http_error", <<>>) }

ShowAnswers ==
    { Show("json", "Returning Series", next, seasons, broken) :
        next \in {<<>>, <<3>>},
        seasons \in { <<>>, <<0, 1, 2>>, <<1, 2, 3>> },
        broken \in { NotBroken, [season |-> 2, kind |-> "http_error"],
                     [season |-> 2, kind |-> "notdict"] } }
    \cup { Show("json", status, next, <<1, 2, 3>>, NotBroken) :
             status \in {"Ended", "Canceled"}, next \in {<<>>, <<3>>} }
    \cup { Show("json", "Returning Series", <<0>>, <<0, 1, 2>>, NotBroken) }
    \cup { Show(kind, "", <<>>, <<>>, NotBroken) : kind \in Kinds \ {"json"} }

PoolShowAnswers ==
    { Show("json", "Returning Series", <<>>, <<1>>, NotBroken),
      Show("http_error", "", <<>>, <<>>, NotBroken) }

\* datetime.now().date() of the request, as a day ordinal.
Todays == {1, 2}

MediaTypeArgs == {"movie", "tv", "person"}

\* What /movie/{id} or /tv/{id} answers to get_details.
DetailAnswers == { [kind |-> kind] : kind \in Kinds }

\* ---------------------------------------------------------- the thread pool
\* Mutant of HasIdleWorker: the width test is off by one.
HasIdleWorkerOffByOne == Cardinality(running) <= MAX_WORKERS

\* ThreadPoolExecutor spawns a thread for a queued work item only while fewer
\* than max_workers threads exist; each thread runs one work item at a time.
HasIdleWorker == Cardinality(running) < MAX_WORKERS

\* Mutant of StoreResult: results are collected in completion order.
StoreResultInCompletionOrder(res, i, value) ==
    LET k == CHOOSE k \in 1..Len(res) : ~res[k].done /\ \A j \in 1..(k - 1) : res[j].done
    IN  [res EXCEPT ![k] = Done(value)]

\* Future i is set by the worker that ran work item i.
StoreResult(res, i, value) == [res EXCEPT ![i] = Done(value)]

\* Mutant of AllResolved: the handler goes on once the queue is empty.
AllTakenFromQueue == nextIdx > Len(items)

\* list(pool.map(...)) / the for loop over pool.map(...) returns once every
\* future has its result.
AllResolved == \A i \in 1..Len(items) : results[i].done

Collected == [i \in 1..Len(items) |-> results[i].value]

\* The function handed to pool.map.
Lookup(item) == IF req = "optimize" THEN OptimizeFetch(item) ELSE FetchEpisodes(item).episodes

LookupCalls(item) == IF req = "optimize" THEN OptimizeCalls(item) ELSE FetchEpisodes(item).calls

Ids(s) == {s[i].id : i \in 1..Len(s)}

\* pool.map(fn, s): every item is submitted at once, in order.  defaults[i] is
\* the value the i-th lookup returns when it fails.
Submit(s, defaults) ==
    /\ items' = s
    /\ nextIdx' = 1
    /\ running' = {}
    /\ results' = [i \in 1..Len(s) |-> Pending(defaults[i])]
    /\ attempts' = [i \in 1..Len(s) |-> 0]
    /\ calls' = {}

NoFanOut ==
    /\ items' = <<>>
    /\ nextIdx' = 1
    /\ running' = {}
    /\ results' = <<>>
    /\ attempts' = <<>>
    /\ calls' = {}

\* A worker thread takes the next work item off the queue and calls the lookup.
WorkerStart ==
    /\ pc = "fanout"
    /\ nextIdx <= Len(items)
    /\ HasIdleWorker
    /\ running' = running \cup {nextIdx}
    /\ attempts' = [attempts EXCEPT ![nextIdx] = @ + 1]
    /\ nextIdx' = nextIdx + 1
    /\ UNCHANGED <<db, pc, req, arg, tmdb, today, items, results, calls, response>>

\* The lookup of work item i returns and its future is set.
WorkerFinish ==
    /\ pc = "fanout"
    /\ \E i \in running :
        /\ results' = StoreResult(results, i, Lookup(items[i]))
        /\ calls' = calls \cup LookupCalls(items[i])
        /\ running' = running \ {i}
    /\ UNCHANGED <<db, pc, req, arg, tmdb, today, items, nextIdx, attempts, response>>

\* ----------------------------------------------------------------- optimize
\* if not watchlist: return jsonify({'error': 'Watchlist is empty'}), 400
OptimizeEmpty ==
    /\ pc = "idle"
    /\ load_watchlist = <<>>
    /\ req' = "optimize"
    /\ response' = [status |-> 400, body |-> [error |-> "Watchlist is empty"]]
    /\ pc' = "done"
    /\ NoFanOut
    /\ UNCHANGED <<db, arg, tmdb, today>>

OptimizeBegin(answers) ==
    /\ pc = "idle"
    /\ load_watchlist # <<>>
    /\ req' = "optimize"
    /\ pc' = "fanout"
    /\ tmdb' \in [Ids(load_watchlist) -> answers]
    /\ Submit(load_watchlist,
              [i \in 1..Len(load_watchlist) |-> [item |-> load_watchlist[i], flatrate |-> <<>>]])
    /\ UNCHANGED <<db, arg, today, response>>

\* Lines 217-283: aggregation, set-cover search and the response.
OptimizeRespond ==
    /\ pc = "fanout"
    /\ req = "optimize"
    /\ AllResolved
    /\ response' = IF AggregatorRaises(Collected) THEN ErrorResponse("KeyError")
                   ELSE [status |-> 200, body |-> OptimizeBody(Collected)]
    /\ pc' = "done"
    /\ UNCHANGED <<db, req, arg, tmdb, today, items, nextIdx, running, results, attempts,
                   calls>>

\* ----------------------------------------------------------------- calendar
TvShows(watchlist) == SelectSeq(watchlist, LAMBDA w : w.media_type = "tv")

CalendarNoShows ==
    /\ pc = "idle"
    /\ TvShows(load_watchlist) = <<>>
    /\ req' = "calendar"
    /\ response' = [status |-> 200,
                    body |-> [episodes |-> <<>>, shows |-> 0,
                              message |-> "No TV shows in your watchlist."]]
    /\ pc' = "done"
    /\ NoFanOut
    /\ UNCHANGED <<db, arg, tmdb, today>>

CalendarBegin(answers) ==
    /\ pc = "idle"
    /\ TvShows(load_watchlist) # <<>>
    /\ req' = "calendar"
    /\ pc' = "fanout"
    /\ today' \in Todays
    /\ tmdb' \in [Ids(TvShows(load_watchlist)) -> answers]
    /\ Submit(TvShows(load_watchlist), [i \in 1..Len(TvShows(load_watchlist)) |-> <<>>])
    /\ UNCHANGED <<db, arg, response>>

CalendarRespond ==
    /\ pc = "fanout"
    /\ req = "calendar"
    /\ AllResolved
    /\ response' = [status |-> 200, body |-> CalendarBody(items, Collected)]
    /\ pc' = "done"
    /\ UNCHANGED <<db, req, arg, tmdb, today, items, nextIdx, running, results, attempts,
                   calls>>

\* --------------------------------------------------------------- get_details
\* Mutant of ValidMediaType: the media type is not checked.
AnyMediaType(media_type) == media_type # ""

ValidMediaType(media_type) == media_type \in {"movie", "tv"}

\* The response of get_details and the provider calls it made.
Details(media_type, title_id, answer) ==
    LET call == {[op |-> "details", id |-> title_id, season |-> 0]}
    IN  IF ~ValidMediaType(media_type)
        THEN [response |-> [status |-> 400, body |-> [error |-> "Invalid media type"]],
              calls |-> {}]
        ELSE IF Get(answer) # "none"
        THEN [response |-> ErrorResponse(Get(answer)), calls |-> call]
        ELSE IF answer.kind = "notdict"
        THEN [response |-> ErrorResponse("AttributeError"), calls |-> call]
        ELSE [response |-> [status |-> 200, body |-> [id |-> title_id]], calls |-> call]

GetDetails ==
    /\ pc = "idle"
    /\ \E media_type \in MediaTypeArgs, answer \in DetailAnswers :
        /\ arg' = media_type
        /\ tmdb' = [id \in {1} |-> answer]
        /\ response' = Details(media_type, 1, answer).response
        /\ calls' = Details(media_type, 1, answer).calls
    /\ req' = "details"
    /\ pc' = "done"
    /\ items' = <<>>
    /\ nextIdx' = 1
    /\ running' = {}
    /\ results' = <<>>
    /\ attempts' = <<>>
    /\ UNCHANGED <<db, today>>

\* ---------------------------------------------------------- watchlist CRUD
\* The items a client may post and watchlist.json may hold: two ids, both media
\* types, two titles.
StoreItems ==
    { [id |-> id, media_type |-> mt, title |-> title] :
        id \in {1, 2}, mt \in {"movie", "tv"}, title \in {1, 2} }

Clock == 1..MaxClock

Stamped(item, now) ==
    [id |-> item.id, media_type |-> item.media_type, title |-> item.title,
     added_at |-> now]

NoLookups ==
    /\ NoFanOut
    /\ UNCHANGED <<tmdb, today>>

\* POST /api/watchlist: add_to_watchlist(request.json), then the reloaded list.
AddToWatchlist ==
    /\ pc = "idle"
    /\ \E item \in StoreItems, now \in Clock :
        /\ Len(InsertOrIgnore(db, Stamped(item, now))) <= MaxRows
        /\ arg' = item
        /\ db' = InsertOrIgnore(db, Stamped(item, now))
    /\ response' = [status |-> 200,
                    body |-> [success |-> TRUE, watchlist |-> LoadOrder(db')]]
    /\ req' = "add"
    /\ pc' = "done"
    /\ NoLookups

\* POST /api/watchlist with a JSON object that has no 'id': item['id'] raises
\* KeyError before the INSERT.
AddWithoutId ==
    /\ pc = "idle"
    /\ arg' = [media_type |-> "movie", title |-> 1]
    /\ response' = ErrorResponse("KeyError")
    /\ req' = "add"
    /\ pc' = "done"
    /\ NoLookups
    /\ UNCHANGED db

\* DELETE /api/watchlist/<media_type>/<int:title_id>
RemoveFromWatchlist ==
    /\ pc = "idle"
    /\ \E id \in {1, 2}, mt \in {"movie", "tv"} :
        /\ arg' = [id |-> id, media_type |-> mt]
        /\ db' = DeleteKey(db, [id |-> id, media_type |-> mt])
    /\ response' = [status |-> 200,
                    body |-> [success |-> TRUE, watchlist |-> LoadOrder(db')]]
    /\ req' = "remove"
    /\ pc' = "done"
    /\ NoLookups

\* GET /api/watchlist
GetWatchlist ==
    /\ pc = "idle"
    /\ arg' = ""
    /\ response' = [status |-> 200, body |-> [watchlist |-> load_watchlist]]
    /\ req' = "get_watchlist"
    /\ pc' = "done"
    /\ NoLookups
    /\ UNCHANGED db

\* The response is sent; the server waits for the next request.
NextRequest ==
    /\ pc = "done"
    /\ pc' = "idle"
    /\ req' = "none"
    /\ arg' = ""
    /\ tmdb' = <<>>
    /\ today' = 0
    /\ response' = NoResponse
    /\ NoFanOut
    /\ UNCHANGED db

\* ------------------------------------------------------------ specifications
Idle ==
    /\ pc = "idle"
    /\ req = "none"
    /\ arg = ""
    /\ tmdb = <<>>
    /\ today = 0
    /\ items = <<>>
    /\ nextIdx = 1
    /\ running = {}
    /\ results = <<>>
    /\ attempts = <<>>
    /\ calls = {}
    /\ response = NoResponse

Init == db \in {Watchlist(n) : n \in 0..MaxTitles} /\ Idle

Next ==
    \/ OptimizeEmpty
    \/ OptimizeBegin(WatchProviderAnswers)
    \/ CalendarNoShows
    \/ CalendarBegin(ShowAnswers)
    \/ WorkerStart
    \/ WorkerFinish
    \/ OptimizeRespond
    \/ CalendarRespond
    \/ GetDetails
    \/ NextRequest

Spec == Init /\ [][Next]_vars

\* The same handlers on watchlists longer than the pool is wide.
InitPool == db \in {Watchlist(n) : n \in 0..MaxItems} /\ Idle

NextPool ==
    \/ OptimizeEmpty
    \/ OptimizeBegin(PoolWatchProviderAnswers)
    \/ CalendarNoShows
    \/ CalendarBegin(PoolShowAnswers)
    \/ WorkerStart
    \/ WorkerFinish
    \/ OptimizeRespond
    \/ CalendarRespond
    \/ GetDetails
    \/ NextRequest

SpecPool == InitPool /\ [][NextPool]_vars

\* The watchlist store: the table after the start-up migration of a
\* watchlist.json of at most MaxRows items, then any adds, removes and loads.
InitStore ==
    /\ \E n \in 0..MaxRows : \E json \in [1..n -> StoreItems], stamps \in [1..n -> Clock] :
          db = Migrate([k \in 1..n |-> Stamped(json[k], stamps[k])])
    /\ Idle

NextStore ==
    \/ AddToWatchlist
    \/ AddWithoutId
    \/ RemoveFromWatchlist
    \/ GetWatchlist
    \/ NextRequest

SpecStore == InitStore /\ [][NextStore]_vars

\* ================================================================== claims
Resp200(kind) == pc = "done" /\ req = kind /\ items # <<>> /\ response.status = 200

\* Model-independent reading of what TMDB offers for the title of work item i.
OffersOf(i) ==
    LET answer == tmdb[items[i].id]
    IN  IF answer.kind = "json" THEN answer.flatrate ELSE <<>>

\* The titles, in watchlist order, for which TMDB lists no flat-rate offer.
TitlesWithoutOffer ==
    LET idx == SelectSeq([i \in 1..Len(items) |-> i], LAMBDA i : OffersOf(i) = <<>>)
    IN  [k \in 1..Len(idx) |-> items[idx[k]].title]

\* C1: in every state of an optimize fan-out there is one result slot per input
\* item, and a slot that is filled holds the pair (items[i], offers TMDB gives
\* for items[i], or the empty list when that lookup failed), whatever the order
\* in which the lookups completed; the response counts every title and lists
\* as not available exactly the titles without offer.
C1_FanOutKeepsOrder ==
    req = "optimize" /\ pc \in {"fanout", "done"} =>
        /\ Len(results) = Len(items)
        /\ items = load_watchlist
        /\ \A i \in 1..Len(items) : results[i].done =>
              /\ results[i].value.item = items[i]
              /\ results[i].value.flatrate = OffersOf(i)
        /\ pc = "done" /\ items # <<>> /\ response.status = 200 =>
              /\ \A i \in 1..Len(items) : results[i].done
              /\ response.body.total_titles = Len(items)
              /\ response.body.not_available = TitlesWithoutOffer

\* A later item has completed before an earlier one, and its lookup failed.
C1_Witness ==
    /\ req = "optimize" /\ pc = "fanout" /\ Len(items) > MAX_WORKERS
    /\ \E i, j \in 1..Len(items) :
          /\ i < j
          /\ ~results[i].done /\ results[j].done
          /\ tmdb[items[j].id].kind = "http_error"
          /\ tmdb[items[i].id].kind = "json"

\* C3: in every state of a fan-out batch at most 5 lookups are in flight, and
\* the items not yet taken by a worker have not been looked up.
C3_AtMostFiveInFlight ==
    pc = "fanout" =>
        /\ Cardinality(running) <= 5
        /\ \A i \in 1..Len(items) : i >= nextIdx => attempts[i] = 0 /\ ~results[i].done

\* Five lookups of a calendar batch in flight while a sixth show waits.
C3_Witness ==
    /\ pc = "fanout" /\ req = "calendar"
    /\ Cardinality(running) = 5
    /\ nextIdx <= Len(items)
    /\ ~ENABLED WorkerStart

\* C4: optimize answers only after every lookup of the batch has returned, no
\* response exists while the batch is running, and every item's lookup is
\* invoked at most once, exactly once by the time of the response.
C4_ResponseAfterWholeBatch ==
    req = "optimize" =>
        /\ pc = "fanout" => response = NoResponse
        /\ \A i \in 1..Len(items) : attempts[i] <= 1
        /\ pc = "done" =>
              /\ running = {}
              /\ \A i \in 1..Len(items) : results[i].done /\ attempts[i] = 1

\* An optimize response for a batch wider than the pool, with a failed lookup.
C4_Witness ==
    /\ Resp200("optimize")
    /\ Len(items) > MAX_WORKERS
    /\ \E i \in 1..Len(items) : tmdb[items[i].id].kind = "http_error"

\* C5: optimize returns exactly min(5, m) combination entries for a catalogue
\* of m provider ids, the k-th entry having num_platforms = k; none for m = 0.
C5_OneEntryPerSize ==
    Resp200("optimize") =>
        LET m      == Len(response.body.all_platforms)
            combos == response.body.combinations
        IN  /\ Len(combos) = (IF m < 5 THEN m ELSE 5)
            /\ \A k \in 1..Len(combos) : combos[k].num_platforms = k
            /\ m = Cardinality({response.body.all_platforms[k].id : k \in 1..m})

\* A catalogue of more than five providers, answered with five entries.
C5_Witness ==
    /\ Resp200("optimize")
    /\ Len(response.body.all_platforms) > 5
    /\ Len(response.body.combinations) = 5

\* The provider ids offering the title of work item i, read from TMDB's answers.
ProvidersOf(i) == {OffersOf(i)[k].provider_id : k \in 1..Len(OffersOf(i))}

CoverageOf(S) == Cardinality({i \in 1..Len(items) : ProvidersOf(i) \cap S # {}})

RECURSIVE CostOf(_)
CostOf(S) ==
    IF S = {} THEN 0
    ELSE LET p == CHOOSE x \in S : TRUE
         IN  (IF p \in DOMAIN PROVIDER_PRICES THEN PROVIDER_PRICES[p] ELSE 0)
             + CostOf(S \ {p})

Catalogue == {response.body.all_platforms[k].id : k \in 1..Len(response.body.all_platforms)}

SubsetsOfSize(n) == {S \in SUBSET Catalogue : Cardinality(S) = n}

\* S is at least as good as T: more coverage, or the same coverage at no more cost.
AtLeastAsGood(S, T) ==
    \/ CoverageOf(S) > CoverageOf(T)
    \/ CoverageOf(S) = CoverageOf(T) /\ CostOf(S) <= CostOf(T)

\* C6: the subset chosen for size n has the maximum coverage over all n-subsets
\* of the catalogue, the minimum cost among those of maximum coverage, and is
\* the first such subset in enumeration order; the entry reports that coverage
\* and that cost.
C6_BestSubsetPerSize ==
    Resp200("optimize") =>
        \A e \in Range(response.body.combinations) :
            LET chosen == Range(e.platforms)
                cs     == Combinations(PlatformIds(response.body.all_platforms),
                                       e.num_platforms)
            IN  /\ chosen \in SubsetsOfSize(e.num_platforms)
                /\ e.coverage = CoverageOf(chosen)
                /\ e.monthly_cost = CostOf(chosen)
                /\ \A S \in SubsetsOfSize(e.num_platforms) : AtLeastAsGood(chosen, S)
                /\ \E j \in 1..Len(cs) :
                      /\ cs[j] = e.platforms
                      /\ \A l \in 1..(j - 1) : ~AtLeastAsGood(Range(cs[l]), chosen)

\* An entry whose subset beats one of equal coverage on cost and ties with
\* another one on both coverage and cost.
C6_Witness ==
    /\ Resp200("optimize")
    /\ \E e \in Range(response.body.combinations) :
          \E S, T \in SubsetsOfSize(e.num_platforms) :
              /\ S # Range(e.platforms) /\ T # Range(e.platforms)
              /\ CoverageOf(S) = e.coverage /\ CostOf(S) > e.monthly_cost
              /\ CoverageOf(T) = e.coverage /\ CostOf(T) = e.monthly_cost

\* C7: coverage does not decrease from the entry of size n to that of size n+1.
C7_CoverageMonotone ==
    Resp200("optimize") =>
        \A k \in 1..(Len(response.body.combinations) - 1) :
            response.body.combinations[k + 1].coverage
                >= response.body.combinations[k].coverage

\* A response where coverage grows from one size to the next and stays the
\* same between two others.
C7_Witness ==
    /\ Resp200("optimize")
    /\ \E k, l \in 1..(Len(response.body.combinations) - 1) :
          /\ response.body.combinations[k + 1].coverage
                > response.body.combinations[k].coverage
          /\ response.body.combinations[l + 1].coverage
                = response.body.combinations[l].coverage

\* The lookup of work item i failed: the provider call raised, or it returned
\* data that is not of the documented shape.
LookupFailed(i) ==
    LET answer == tmdb[items[i].id]
    IN  \/ answer.kind # "json"
        \/ req = "optimize" /\ \E k \in 1..Len(answer.flatrate) :
                                   "provider_id" \notin DOMAIN answer.flatrate[k]

DefaultResult(i) ==
    IF req = "optimize" THEN results[i].value.flatrate = <<>> ELSE results[i].value = <<>>

\* C2: a batch of optimize or calendar ends with a normal response, and every
\* item whose lookup failed (raised, or returned malformed data) has resolved
\* to its default: empty offer list, zero episodes.
C2_FailureStaysPerItem ==
    pc = "done" /\ req \in {"optimize", "calendar"} /\ items # <<>> =>
        /\ response.status = 200
        /\ \A i \in 1..Len(items) : LookupFailed(i) => DefaultResult(i)

\* C8: an optimize or calendar request during which TMDB rejected the API key
\* ends with the provider-error response (502), not with a normal result.
C8_AuthFailurePropagates ==
    pc = "done" /\ req \in {"optimize", "calendar"} /\ items # <<>>
        /\ (\E id \in DOMAIN tmdb : tmdb[id].kind = "unauthorized")
    => response.status = 502

\* C9: optimize on an empty watchlist and get_details on a media type other
\* than movie or tv end with status 400 and without a provider call or a
\* lookup having been made during the request.
C9_InputErrorBeforeFetch ==
    /\ pc = "done" /\ req = "optimize" /\ db = <<>> =>
          response.status = 400 /\ calls = {} /\ items = <<>> /\ attempts = <<>>
    /\ pc = "done" /\ req = "details" /\ arg \notin {"movie", "tv"} =>
          response.status = 400 /\ calls = {}
    /\ pc = "done" /\ req = "details" /\ arg \in {"movie", "tv"} =>
          response.status # 400 /\ calls # {}

\* A details request for media type "person" was rejected.
C9_Witness ==
    pc = "done" /\ req = "details" /\ arg = "person" /\ response.status = 400

\* The season listings the finished lookups fetched and TMDB answered properly.
FetchedSeasons ==
    {c \in calls : c.op = "season" /\ SeasonAnswer(c.id, c.season).kind = "json"}

\* C10: every episode of the calendar result is dated within
\* [today, today + 150 days], and every episode of a fetched season listing that
\* is dated within that interval, both ends included, is in the result.
C10_WindowInclusive ==
    Resp200("calendar") =>
        LET eps == response.body.episodes
        IN  /\ \A k \in 1..Len(eps) :
                  today <= eps[k].air_date /\ eps[k].air_date <= today + 150
            /\ \A c \in FetchedSeasons : \A ep \in Range(EpisodesOf(c.season)) :
                  ep.air = "date" /\ today <= ep.day /\ ep.day <= today + 150 =>
                      \E k \in 1..Len(eps) :
                          /\ eps[k].show_id = c.id
                          /\ eps[k].season_number = c.season
                          /\ eps[k].episode_number = ep.episode_number
                          /\ eps[k].air_date = ep.day

\* A calendar holding an episode dated today + 150, built from listings that
\* also hold an episode dated today + 151 and one dated the day before today.
C10_Witness ==
    /\ Resp200("calendar")
    /\ \E k \in 1..Len(response.body.episodes) :
          response.body.episodes[k].air_date = today + 150
    /\ \E c, d \in FetchedSeasons :
          /\ c.id = d.id
          /\ \E ep \in Range(EpisodesOf(c.season)) : ep.air = "date" /\ ep.day = today + 151
          /\ \E ep \in Range(EpisodesOf(d.season)) : ep.air = "date" /\ ep.day = today - 1

\* TMDB reports the show of work item i as ended or cancelled.
TerminalShow(i) ==
    LET show == tmdb[items[i].id]
    IN  show.kind = "json" /\ (show.status = "Ended" \/ show.status = "Canceled")

\* C11: a show whose status is Ended or Canceled has no season listing fetched,
\* resolves to zero episodes and has no episode in the calendar, whatever its
\* next-episode pointer and season list are.
C11_TerminalShowSilent ==
    req = "calendar" /\ pc \in {"fanout", "done"} =>
        \A i \in 1..Len(items) : TerminalShow(i) =>
            /\ \A c \in calls : c.id = items[i].id => c.op = "tv_basic"
            /\ results[i].value = <<>>
            /\ pc = "done" =>
                  \A k \in 1..Len(response.body.episodes) :
                      response.body.episodes[k].show_id # items[i].id

\* A calendar with episodes of a running show, next to a cancelled show whose
\* pointer names a season holding an episode inside the window.
C11_Witness ==
    /\ Resp200("calendar")
    /\ response.body.episodes # <<>>
    /\ \E i \in 1..Len(items) :
          /\ TerminalShow(i)
          /\ tmdb[items[i].id].status = "Canceled"
          /\ tmdb[items[i].id].next = <<3>>
          /\ \E ep \in Range(EpisodesOf(3)) :
                ep.air = "date" /\ today <= ep.day /\ ep.day <= today + 150
          /\ [op |-> "tv_basic", id |-> items[i].id, season |-> 0] \in calls

Keys(rows) == {<<rows[k].id, rows[k].media_type>> : k \in 1..Len(rows)}

OneRowPerKey(rows) == Cardinality(Keys(rows)) = Len(rows)

\* The step is an add of an item whose key the table already holds.
AddOfPresentKey ==
    /\ pc = "idle" /\ req' = "add" /\ response'.status = 200
    /\ <<arg'.id, arg'.media_type>> \in Keys(db)

\* C12: after any adds and removes the table, what load returns and the
\* watchlist of every response hold at most one row per (id, media_type); an
\* add of a key that is present changes no row (the fields of the first add
\* stay), and after an add the key is loaded exactly once.
C12_InsertIsIdempotent ==
    /\ [](/\ OneRowPerKey(db)
          /\ OneRowPerKey(load_watchlist)
          /\ Keys(load_watchlist) = Keys(db)
          /\ pc = "done" /\ req \in {"add", "remove", "get_watchlist"}
                /\ response.status = 200 =>
                    /\ response.body.watchlist = load_watchlist
                    /\ req = "add" =>
                          Cardinality({k \in 1..Len(load_watchlist) :
                              /\ load_watchlist[k].id = arg.id
                              /\ load_watchlist[k].media_type = arg.media_type}) = 1)
    /\ [][AddOfPresentKey => db' = db]_vars

\* An add was answered while the table holds the key with another title and
\* next to a second row: the row of the first add is still there.
C12_Witness ==
    /\ pc = "done" /\ req = "add" /\ response.status = 200
    /\ Len(db) = 2
    /\ \E k \in 1..Len(db) :
          /\ db[k].id = arg.id /\ db[k].media_type = arg.media_type
          /\ db[k].title # arg.title

\* TMDB answered the show of work item i, and it is neither ended nor cancelled.
RunningShow(i) ==
    LET show == tmdb[items[i].id]
    IN  show.kind = "json" /\ show.status # "Ended" /\ show.status # "Canceled"

\* The season of the next-episode pointer when there is one, and the last two
\* entries of the season list with a season number above zero.
CandidateSeasons(show) ==
    {show.next[k] : k \in 1..Len(show.next)}
        \cup {sn \in Range(show.seasons) :
                /\ sn > 0
                /\ Cardinality({k \in 1..Len(show.seasons) :
                       show.seasons[k] > sn}) < 2}

SeasonsFetchedFor(id) == {c.season : c \in {d \in calls : d.op = "season" /\ d.id = id}}

\* C13: for a show that has not ended, the seasons whose listings are fetched
\* are exactly the season of the next-episode pointer, whenever the pointer is
\* present, and the last two seasons numbered above zero; the episodes inside
\* the window of every candidate season TMDB answers are in the show's result,
\* whether or not another candidate season failed.
C13_CandidateSeasonsFetched ==
    req = "calendar" /\ pc \in {"fanout", "done"} =>
        \A i \in 1..Len(items) : RunningShow(i) /\ results[i].done =>
            LET id   == items[i].id
                cand == CandidateSeasons(tmdb[id])
            IN  /\ SeasonsFetchedFor(id) = cand
                /\ \A sn \in cand : SeasonAnswer(id, sn).kind = "json" =>
                      \A ep \in Range(EpisodesOf(sn)) :
                          ep.air = "date" /\ today <= ep.day /\ ep.day <= today + 150 =>
                              \E k \in 1..Len(results[i].value) :
                                  /\ results[i].value[k].season_number = sn
                                  /\ results[i].value[k].episode_number = ep.episode_number

====
